---- MODULE Spec2Model ----
(***************************************************************************)
(* Model of stock_price_predictor.                                         *)
(*                                                                         *)
(* The prediction API, api_lambda/app/lambda_function.py: lambda_handler   *)
(* and fetch_latest_prediction.                                            *)
(*                                                                         *)
(* The function takes the latest prediction record, resolves the hour of   *)
(* its datetime to a slot of the configured time_list, and then, for every *)
(* remaining key of the record (an integer horizon), computes the datetime *)
(* the horizon stands for: the same day while the slot stays inside        *)
(* time_list, otherwise the next day, moved past the weekend.              *)
(*                                                                         *)
(* Indices are Python's: time_list_index and every index handed to GetItem *)
(* are 0-based; At(tl, i) reads the element Python calls tl[i].            *)
(***************************************************************************)
EXTENDS Integers, Sequences, FiniteSets, TLC

VARIABLES
    time_list,             \* stock_configuration.time_list
    saturday,              \* stock_configuration.saturday
    sunday,                \* stock_configuration.sunday
    dict_order,            \* the horizon keys of stock_configuration.dict_order
    event,                 \* the event lambda_handler is called with
    table,                 \* the items of the prediction table the API reads
    todays_date,           \* the date the clock shows at line 51
    table_reads,           \* number of query and scan calls made on the table
    record,                \* the selected item: prediction_dict before the pops
    response,              \* response_body as it is returned: timestamp and entries
    returned,              \* the value lambda_handler returned, or NotReturned
    pred_time,             \* prediction_dict["datetime"], the base datetime
    prediction_dict,       \* the keys left in prediction_dict after the pops, in dict_order
    prediction_base_hour,  \* local of fetch_latest_prediction
    time_list_index,       \* local of fetch_latest_prediction
    loop_i,                \* number of completed iterations of the per-key loop
    response_body,         \* response_body["prediction"]: key -> resolved datetime
    raised,                \* the exception that ended the call, or NoError
    pc,                    \* position in fetch_latest_prediction
    variant,               \* which lambda is deployed: ml_lambda/app or app
    now,                   \* the clock of the stock exchange: <<day, slot>>
    stock_table,           \* the rows of the stock table, by <<day, slot>>
    prediction_table,      \* the rows of the prediction table, by <<day, slot>>
    limit_table,           \* the "max" of the operations stock, prediction, train
    models,                \* per model, the batches update_model has fitted it on
    predicted,             \* per stock row, how often it was written as a prediction
    ml_event,              \* the event handler is called with
    ml_pc,                 \* position in handler
    ml_read,               \* the "max" values read at the start of the function
    ml_batch,              \* the rows to upload, or to train on
    ml_i,                  \* the model update_model is at
    ml_chain,              \* update_predict is still to be called
    ml_result,             \* the value each function returned
    ml_raised,             \* the exception that ended handler, or NoError
    ml_before,             \* the tables and models as handler found them
    runs,                  \* number of calls of handler
    trained,               \* per stock row, in how many training batches it was
    inv_pc,                \* per overlapping invocation, its position
    inv_read,              \* per overlapping invocation, the "max" values it read
    inv_batch,             \* per overlapping invocation, the rows it uploads
    thread_pool_size,      \* max_workers of upload_dynamodb's executor
    up_task,               \* per row of the frame, the state of its put_item task
    up_puts,               \* per row of the frame, the put_item calls issued
    up_next,               \* the result the caller of executor.map waits for
    up_pc,                 \* position in upload_dynamodb
    caller_df,             \* the frame shift_dataframe is called with
    df_shifted,            \* the frame shift_dataframe returns
    caller_shift,          \* the shift shift_dataframe is called with
    shift_pc               \* position in shift_dataframe

\* the configuration read from the environment
configVars == <<time_list, saturday, sunday, dict_order>>

\* what the API is called with and what it reads
apiInputs == <<event, table, todays_date>>

\* the state of the prediction API
apiVars == <<time_list, saturday, sunday, dict_order, event, table, todays_date,
             table_reads, record, response, returned, pred_time, prediction_dict,
             prediction_base_hour, time_list_index, loop_i, response_body,
             raised, pc>>

\* the tables, the model bucket and the watermarks
storeVars == <<stock_table, prediction_table, limit_table, models>>

\* the state of the ML lambda
\* two invocations of the ML lambda that overlap in time
raceVars == <<inv_pc, inv_read, inv_batch>>

\* upload_dynamodb and its thread pool
uploadVars == <<thread_pool_size, up_task, up_puts, up_next, up_pc>>

\* shift_dataframe
shiftVars == <<caller_df, df_shifted, caller_shift, shift_pc>>

\* what the handlers of the two lambdas leave alone
sideVars == <<raceVars, uploadVars, shiftVars>>

\* the state of the ML lambda
mlVars == <<variant, now, storeVars, predicted, ml_event, ml_pc, ml_read,
            ml_batch, ml_i, ml_chain, ml_result, ml_raised, ml_before, runs,
            trained, sideVars>>

vars == <<apiVars, mlVars>>

----------------------------------------------------------------------------
(* Bounds of the model *)

\* longest time_list
MaxLen == 3

\* largest horizon key of a record: the last offset of the documented domain
\* of the longest list (for a shorter list it lies outside the domain)
MaxOffset == 2 * MaxLen - 1

\* the last horizon key of a record: a record of two horizons and a record
\* of all of them
LastKeys == {1, MaxOffset}

\* the hours a time_list is made of
HourDomain == {9, 11, 13, 15}

\* hours of day a record's datetime can carry
RawHours == 0 .. 23

\* years and months the record's date is drawn from: a leap February, a
\* 31-day month that ends on a weekend, and the last month of the year
Years == {2024}
Months == {2, 3, 12}

\* dates on which every hour of the day is tried (the Monday and the Friday
\* of the worked examples)
ExampleDays == {<<2024, 3, 4>>, <<2024, 3, 8>>}

\* (minute, second) pairs of a record's datetime
MinuteSeconds == {<<0, 0>>, <<30, 15>>}

\* (saturday, sunday) configurations: Monday = 0 numbering, and a
\* Friday/Saturday weekend
WeekendConfigs == {<<5, 6>>, <<4, 5>>}

\* dates and times of day of the items of the prediction table when the
\* whole handler is run, and the dates the clock can show
TableDates == {<<2024, 3, 4>>, <<2024, 3, 5>>, <<2024, 3, 29>>}
TableTimes == {<<9, 0, 0>>, <<13, 30, 15>>}

\* the 'handler' values of an event
HandlerNames == {"latest", "", "Latest", "update_predict"}

----------------------------------------------------------------------------
(* Python values *)

NoError == "none"
NotInList == "ValueError: x is not in list"
DayOutOfRange == "ValueError: day is out of range for month"
IndexOutOfRange == "IndexError: list index out of range"
NoDateColumn == "KeyError: 'date'"

\* the handler has not returned
NotReturned == [returned |-> FALSE]
BadRequest == [message |-> "bad request"]

Ok(v) == [ok |-> TRUE, v |-> v, err |-> NoError]
Raise(e, v) == [ok |-> FALSE, v |-> v, err |-> e]

Abs(n) == IF n < 0 THEN -n ELSE n

\* tl[i] of Python, for an index inside the list
At(tl, i) == tl[i + 1]

Range(tl) == {tl[j] : j \in 1 .. Len(tl)}

\* tl[i] of Python: a negative index counts from the end, anything outside
\* raises IndexError
GetItem(tl, i) ==
    IF i >= 0 /\ i < Len(tl) THEN Ok(tl[i + 1])
    ELSE IF i < 0 /\ -i <= Len(tl) THEN Ok(tl[Len(tl) + i + 1])
    ELSE Raise(IndexOutOfRange, 0)

----------------------------------------------------------------------------
(* The calendar of datetime *)

IsLeap(y) == (y % 4 = 0 /\ y % 100 # 0) \/ y % 400 = 0

DaysInMonth(y, m) ==
    IF m = 2 THEN (IF IsLeap(y) THEN 29 ELSE 28)
    ELSE IF m \in {4, 6, 9, 11} THEN 30
    ELSE 31

RECURSIVE DaysBeforeMonth(_, _)
DaysBeforeMonth(y, m) ==
    IF m = 1 THEN 0 ELSE DaysBeforeMonth(y, m - 1) + DaysInMonth(y, m - 1)

DaysBeforeYear(y) ==
    (y - 1) * 365 + ((y - 1) \div 4) - ((y - 1) \div 100) + ((y - 1) \div 400)

ToOrdinal(dt) == DaysBeforeYear(dt.year) + DaysBeforeMonth(dt.year, dt.month) + dt.day

\* datetime.weekday(): Monday is 0, Sunday is 6
Weekday(dt) == (ToOrdinal(dt) + 6) % 7

\* datetime.replace(day=d): a day outside the month raises ValueError
ReplaceDay(dt, d) ==
    IF d >= 1 /\ d <= DaysInMonth(dt.year, dt.month)
    THEN Ok([dt EXCEPT !.day = d])
    ELSE Raise(DayOutOfRange, dt)

SameDay(a, b) == a.year = b.year /\ a.month = b.month /\ a.day = b.day

\* datetime.replace(hour=h): only the hour changes
ReplaceHourTruncating(dt, h) == [dt EXCEPT !.hour = h, !.minute = 0, !.second = 0]
ReplaceHour(dt, h) == [dt EXCEPT !.hour = h]

----------------------------------------------------------------------------
(* Inputs *)

Datetime(y, m, d, h, mi, s) ==
    [year |-> y, month |-> m, day |-> d, hour |-> h, minute |-> mi, second |-> s]

\* the strictly increasing sequence of the elements of S
SortedSeq(S) ==
    CHOOSE q \in [1 .. Cardinality(S) -> S] :
        \A a, b \in 1 .. Cardinality(S) : a < b => q[a] < q[b]

\* TIME_LIST: non-empty, strictly increasing
TimeLists ==
    {SortedSeq(S) : S \in {T \in SUBSET HourDomain : T # {} /\ Cardinality(T) <= MaxLen}}

Dates == {x \in Years \X Months \X (1 .. 31) : x[3] <= DaysInMonth(x[1], x[2])}

\* the datetimes of the latest record: every date with the hours a time_list
\* can hold, and every hour of the day on the example days
BaseDatetimes ==
    {Datetime(c[1][1], c[1][2], c[1][3], c[2], c[3][1], c[3][2]) :
        c \in {x \in Dates \X RawHours \X MinuteSeconds :
                  x[2] \in HourDomain \/ x[1] \in ExampleDays}}

\* the horizon keys of a record, in dict_order: "0", "1", ..., as integers
HorizonKeys == {[j \in 1 .. n + 1 |-> j - 1] : n \in LastKeys}

\* an item of the prediction table: the key (date, time), create_at and one
\* predicted value for every horizon
MakeRecord(date, time) ==
    [date |-> date, time |-> time,
     create_at |-> <<"create_at", date, time>>,
     values |-> [k \in 0 .. MaxOffset |-> 10 * time[1] + k]]

\* the item a base datetime comes from
RecordOf(dt) == MakeRecord(<<dt.year, dt.month, dt.day>>, <<dt.hour, dt.minute, dt.second>>)

\* the tables the whole handler is run on: no item of a table is dated
\* after the day the clock shows
TableItems == {MakeRecord(d, t) : d \in TableDates, t \in TableTimes}

DateLe(a, b) ==
    \/ a[1] < b[1]
    \/ a[1] = b[1] /\ a[2] < b[2]
    \/ a[1] = b[1] /\ a[2] = b[2] /\ a[3] <= b[3]

\* the events: without a 'handler' key, and with one
Events == {[path |-> "/"]} \cup {[handler |-> h] : h \in HandlerNames}

----------------------------------------------------------------------------
(* lambda_handler, lines 197-210 *)

\* where the event is sent: to fetch_latest_prediction or to "bad request"
ApiRouteAnyHandler(ev) ==
    IF "handler" \notin DOMAIN ev THEN "bad_request" ELSE "fetch"
ApiRoute(ev) ==
    IF "handler" \notin DOMAIN ev THEN "bad_request"
    ELSE IF ev.handler = "latest" THEN "fetch"
    ELSE "bad_request"

----------------------------------------------------------------------------
(* fetch_latest_prediction, lines 51-81: the latest item *)

\* table.query(KeyConditionExpression=Key("date").eq(todays_date))["Items"]
QueryDate(tbl, date) == {r \in tbl : r.date = date}

\* pd.to_datetime(date + " " + time)
ParseDatetime(date, time) == Datetime(date[1], date[2], date[3], time[1], time[2], time[3])

\* the order of the datetime column
DatetimeLe(a, b) ==
    \/ DateLe(<<a.year, a.month, a.day>>, <<b.year, b.month, b.day>>) /\ ~SameDay(a, b)
    \/ SameDay(a, b) /\ DateLe(<<a.hour, a.minute, a.second>>, <<b.hour, b.minute, b.second>>)

\* sort_values("datetime", ascending=True).tail(1) of a non-empty frame
FirstRecord(items) ==
    CHOOSE r \in items : \A q \in items :
        DatetimeLe(ParseDatetime(r.date, r.time), ParseDatetime(q.date, q.time))
LatestRecord(items) ==
    CHOOSE r \in items : \A q \in items :
        DatetimeLe(ParseDatetime(q.date, q.time), ParseDatetime(r.date, r.time))

\* lines 72-74 and 98-101: the keys of dict_order that are left after the pops
HorizonsOf(order, rec) == SelectSeq(order, LAMBDA k : k \in DOMAIN rec.values)

----------------------------------------------------------------------------
(* fetch_latest_prediction, lines 130-134: the entry of a key *)

DigitChars == <<"0", "1", "2", "3", "4", "5", "6", "7", "8", "9">>

RECURSIVE Digits(_)
\* str() of a non-negative whole number: its decimal digits
Digits(n) ==
    IF n < 10 THEN <<DigitChars[n + 1]>>
    ELSE Append(Digits(n \div 10), DigitChars[(n % 10) + 1])

\* two digits, zero padded
TwoDigits(n) == <<DigitChars[(n \div 10) + 1], DigitChars[(n % 10) + 1]>>

\* datetime.isoformat(): YYYY-MM-DDTHH:MM:SS
IsoFormat(dt) ==
    Digits(dt.year) \o <<"-">> \o TwoDigits(dt.month) \o <<"-">> \o TwoDigits(dt.day)
    \o <<"T">> \o TwoDigits(dt.hour) \o <<":">> \o TwoDigits(dt.minute)
    \o <<":">> \o TwoDigits(dt.second)

\* str(key) + "_hour_prediction"
EntryLabel(key) == Digits(key) \o <<"_hour_prediction">>

EntryOfNextKey(rec, key, dv) ==
    [value |-> Digits(rec.values[(key + 1) % (MaxOffset + 1)]), datetime |-> IsoFormat(dv)]
EntryOf(rec, key, dv) ==
    [value |-> Digits(rec.values[key]), datetime |-> IsoFormat(dv)]

----------------------------------------------------------------------------
(* fetch_latest_prediction, lines 82-91: the base hour and its slot *)

\* the comparison min(..., key=lambda x: abs(x - prediction_base_hour)) makes:
\* a later element replaces the best one only when it is strictly nearer
CloserOrEqual(x, best, h) == Abs(x - h) <= Abs(best - h)
Closer(x, best, h) == Abs(x - h) < Abs(best - h)

RECURSIVE MinFrom(_, _, _, _)
MinFrom(tl, h, j, best) ==
    IF j > Len(tl) THEN best
    ELSE MinFrom(tl, h, j + 1, IF Closer(tl[j], best, h) THEN tl[j] ELSE best)

\* min(time_list, key=...) over a non-empty list
NearestHour(tl, h) == MinFrom(tl, h, 2, tl[1])

ResolveBaseHourInverted(raw, tl) ==
    IF raw \in Range(tl) THEN NearestHour(tl, raw) ELSE raw
ResolveBaseHour(raw, tl) ==
    IF raw \notin Range(tl) THEN NearestHour(tl, raw) ELSE raw

\* time_list.index(h): the first position holding h, ValueError when absent
IndexOfOneBased(tl, h) ==
    IF h \in Range(tl)
    THEN Ok(CHOOSE j \in 1 .. Len(tl) : tl[j] = h /\ \A l \in 1 .. j - 1 : tl[l] # h)
    ELSE Raise(NotInList, -1)
IndexOf(tl, h) ==
    IF h \in Range(tl)
    THEN Ok((CHOOSE j \in 1 .. Len(tl) : tl[j] = h /\ \A l \in 1 .. j - 1 : tl[l] # h) - 1)
    ELSE Raise(NotInList, -1)

----------------------------------------------------------------------------
(* fetch_latest_prediction, lines 104-134: one iteration of the loop *)

\* line 107
OverflowsOffByOne(idx, k, tl) == idx + k + 1 >= Len(tl)
Overflows(idx, k, tl) == idx + k >= Len(tl)

\* lines 118-122
OverflowHour(tl, idx, k) == GetItem(tl, idx + k - Len(tl))

\* line 127
SameDayHourNaive(tl, idx, k) == Ok(At(tl, idx) + k)
SameDayHour(tl, idx, k) == GetItem(tl, idx + k)

\* lines 108-114: one day on, then past the weekend
AdvanceDay(dt, sat, sun) ==
    LET d1 == ReplaceDay(dt, dt.day + 1) IN
    IF ~d1.ok THEN d1
    ELSE IF Weekday(d1.v) = sat THEN ReplaceDay(d1.v, d1.v.day + 2)
    ELSE IF Weekday(d1.v) = sun THEN ReplaceDay(d1.v, d1.v.day + 1)
    ELSE d1

\* lines 105-128: datetime_value of the key k
DatetimeValue(pt, idx, k, tl, sat, sun) ==
    IF Overflows(idx, k, tl)
    THEN LET d == AdvanceDay(pt, sat, sun) IN
         IF ~d.ok THEN d
         ELSE LET h == OverflowHour(tl, idx, k) IN
              IF ~h.ok THEN Raise(h.err, d.v) ELSE Ok(ReplaceHour(d.v, h.v))
    ELSE LET h == SameDayHour(tl, idx, k) IN
         IF ~h.ok THEN Raise(h.err, pt) ELSE Ok(ReplaceHour(pt, h.v))

----------------------------------------------------------------------------
(* The state machine *)

\* the placeholders of what is not yet assigned
NoRecord == <<>>
NoResponse == <<>>

\* the ML lambda is not called while the API is looked at
\* no invocations overlap, nothing is uploaded, nothing is shifted
RaceIdle ==
    /\ inv_pc = <<>>
    /\ inv_read = <<>>
    /\ inv_batch = <<>>

UploadIdle ==
    /\ thread_pool_size = 0
    /\ up_task = <<>>
    /\ up_puts = <<>>
    /\ up_next = 0
    /\ up_pc = "off"

ShiftIdle ==
    /\ caller_df = <<>>
    /\ df_shifted = <<>>
    /\ caller_shift = 0
    /\ shift_pc = "off"

SideIdle == RaceIdle /\ UploadIdle /\ ShiftIdle

MlAtRest ==
    /\ trained = <<>>
    /\ variant = "ml_lambda"
    /\ now = <<0, 0>>
    /\ stock_table = {}
    /\ prediction_table = {}
    /\ limit_table = <<>>
    /\ models = <<>>
    /\ predicted = <<>>
    /\ ml_event = <<>>
    /\ ml_pc = "off"
    /\ ml_read = <<>>
    /\ ml_batch = {}
    /\ ml_i = 0
    /\ ml_chain = FALSE
    /\ ml_result = <<>>
    /\ ml_raised = NoError
    /\ ml_before = <<>>
    /\ runs = 0

MlIdle == SideIdle /\ MlAtRest

Config ==
    /\ time_list \in TimeLists
    /\ \E w \in WeekendConfigs : saturday = w[1] /\ sunday = w[2]
    /\ dict_order \in HorizonKeys

\* fetch_latest_prediction at line 82: the latest item has been selected
Init ==
    /\ Config
    /\ pred_time \in BaseDatetimes
    /\ record = RecordOf(pred_time)
    /\ table = {record}
    /\ todays_date = record.date
    /\ event = [handler |-> "latest"]
    /\ table_reads = 1
    /\ prediction_dict = HorizonsOf(dict_order, record)
    /\ response = [prediction_timestamp |-> record.create_at, prediction |-> <<>>]
    /\ returned = NotReturned
    /\ prediction_base_hour = -1
    /\ time_list_index = -1
    /\ loop_i = 0
    /\ response_body = <<>>
    /\ raised = NoError
    /\ pc = "base_hour"
    /\ MlIdle

\* lambda_handler on entry: an event, a clock and a table
InitApi ==
    /\ Config
    /\ event \in Events
    /\ todays_date \in TableDates
    /\ table \in SUBSET {r \in TableItems : DateLe(r.date, todays_date)}
    /\ table_reads = 0
    /\ record = NoRecord
    /\ pred_time = NoRecord
    /\ prediction_dict = <<>>
    /\ response = NoResponse
    /\ returned = NotReturned
    /\ prediction_base_hour = -1
    /\ time_list_index = -1
    /\ loop_i = 0
    /\ response_body = <<>>
    /\ raised = NoError
    /\ pc = "handler"
    /\ MlIdle

\* lambda_handler, lines 178-210
LambdaHandler ==
    /\ pc = "handler"
    /\ IF ApiRoute(event) = "fetch"
       THEN pc' = "fetch" /\ UNCHANGED returned
       ELSE pc' = "done" /\ returned' = BadRequest
    /\ UNCHANGED <<mlVars, configVars, apiInputs, table_reads, record, response,
                   pred_time, prediction_dict, prediction_base_hour,
                   time_list_index, loop_i, response_body, raised>>

\* fetch_latest_prediction, lines 51-81 and 94-101
FetchLatest ==
    /\ pc = "fetch"
    /\ LET todays == QueryDate(table, todays_date)
           items == IF todays # {} THEN todays ELSE table
       IN /\ table_reads' = table_reads + (IF todays # {} THEN 1 ELSE 2)
          /\ IF items = {}
             THEN /\ raised' = NoDateColumn
                  /\ pc' = "raised"
                  /\ UNCHANGED <<record, pred_time, prediction_dict, response>>
             ELSE LET rec == LatestRecord(items) IN
                  /\ record' = rec
                  /\ pred_time' = ParseDatetime(rec.date, rec.time)
                  /\ prediction_dict' = HorizonsOf(dict_order, rec)
                  /\ response' = [prediction_timestamp |-> rec.create_at,
                                  prediction |-> <<>>]
                  /\ pc' = "base_hour"
                  /\ UNCHANGED raised
    /\ UNCHANGED <<mlVars, configVars, apiInputs, returned, prediction_base_hour,
                   time_list_index, loop_i, response_body>>

\* lines 82-91
ResolveBase ==
    /\ pc = "base_hour"
    /\ LET h == ResolveBaseHour(pred_time.hour, time_list)
           i == IndexOf(time_list, h)
       IN /\ prediction_base_hour' = h
          /\ time_list_index' = i.v
          /\ raised' = i.err
          /\ pc' = IF i.ok THEN "loop" ELSE "raised"
    /\ UNCHANGED <<mlVars, configVars, apiInputs, table_reads, record, response,
                   returned, pred_time, prediction_dict, loop_i, response_body>>

\* lines 104-134, one key
LoopStep ==
    /\ pc = "loop"
    /\ loop_i < Len(prediction_dict)
    /\ LET key == prediction_dict[loop_i + 1]
           r == DatetimeValue(pred_time, time_list_index, key, time_list,
                              saturday, sunday)
       IN IF r.ok
          THEN /\ response_body' = (key :> r.v) @@ response_body
               /\ response' = [response EXCEPT !.prediction =
                                  (EntryLabel(key) :> EntryOf(record, key, r.v)) @@ @]
               /\ loop_i' = loop_i + 1
               /\ UNCHANGED <<raised, pc>>
          ELSE /\ raised' = r.err
               /\ pc' = "raised"
               /\ UNCHANGED <<response_body, response, loop_i>>
    /\ UNCHANGED <<mlVars, configVars, apiInputs, table_reads, record, returned,
                   pred_time, prediction_dict, prediction_base_hour,
                   time_list_index>>

\* lines 136-137
Return ==
    /\ pc = "loop"
    /\ loop_i = Len(prediction_dict)
    /\ returned' = response
    /\ pc' = "done"
    /\ UNCHANGED <<mlVars, configVars, apiInputs, table_reads, record, response,
                   pred_time, prediction_dict, prediction_base_hour,
                   time_list_index, loop_i, response_body, raised>>

Next == ResolveBase \/ LoopStep \/ Return

Spec == Init /\ [][Next]_vars

NextApi == LambdaHandler \/ FetchLatest \/ ResolveBase \/ LoopStep \/ Return

\* the whole handler, from the event to the returned value
SpecApi == InitApi /\ [][NextApi]_vars

----------------------------------------------------------------------------
(* The ML lambda: ml_lambda/app/lambda_function.py, and its older variant
   app/lambda_function.py. A stock row is known by its date and time, here a
   day number and a slot of the trading day. *)

\* last day of the clock
MaxDay == 3

\* stock rows of one trading day
SlotsPerDay == 2

\* MODEL_NUM
ModelsNumber == 2

\* calls of handler in one behaviour
MaxRuns == 4

Variants == {"ml_lambda", "app"}
Operations == {"stock", "prediction", "train"}
Functions == {"update_stock_table", "update_predict", "update_model"}

AllRows == (1 .. MaxDay) \X (1 .. SlotsPerDay)

\* the order of the datetime column
RowLt(a, b) == a[1] < b[1] \/ (a[1] = b[1] /\ a[2] < b[2])
RowLe(a, b) == a = b \/ RowLt(a, b)

\* tail(1) of a frame sorted by datetime
LastRow(rows) == CHOOSE r \in rows : \A q \in rows : RowLe(q, r)

RECURSIVE SortRows(_)
\* sort_values(by=["datetime"]) and reset_index
SortRows(rows) ==
    IF rows = {} THEN <<>>
    ELSE LET m == LastRow(rows) IN Append(SortRows(rows \ {m}), m)

\* the values of limit_table's "max": an ISO datetime, a date, or "0"
IsoDatetime(r) == [kind |-> "datetime", day |-> r[1], slot |-> r[2]]
DateOnly(d) == [kind |-> "date", day |-> d, slot |-> 0]
Zero == [kind |-> "zero", day |-> 0, slot |-> 0]

ParseError == "ValueError: day is out of range for month"
HandlerIsNone == "ValueError: handler is None"
NoTimeColumn == "KeyError: 'time'"
NoSamples == "ValueError: Found array with 0 sample(s)"
EmptyDownload == "Exception: fail to get data from yahoo finance. data is empty"

\* pd.to_datetime(str(max)): a date is read as its midnight, "0" is no date
ToDatetime(max) ==
    IF max.kind = "zero" THEN Raise(ParseError, <<0, 0>>)
    ELSE Ok(<<max.day, max.slot>>)

\* Timestamp == "0": a Timestamp never equals a string
TimestampIsZero(ts) == FALSE

\* date <= max, both strings: a date is a prefix of the datetimes of its day,
\* and every date is above "0"
DateStrLe(day, max) == max.kind # "zero" /\ day <= max.day

\* what a function returns: a number of rows, or a message
Count(n) == [count |-> n, message |-> "count"]
Message(m) == [count |-> -1, message |-> m]
NoResult == [count |-> -1, message |-> "none"]

\* the values of event["handler"]
PyStr(x) == [type |-> "str", repr |-> x]
PyInt(x) == [type |-> "int", repr |-> x]
MlHandlerNames == {"update_stock_table", "update_predict",
                   "update_and_predict_tables", "update_model", "", "latest"}
MlEvents == {[path |-> PyStr("/")]}
            \cup {[handler |-> PyStr(h)] : h \in MlHandlerNames}
            \cup {[handler |-> PyInt("7")]}

\* ml_lambda handler, lines 503-505 and 554-617
MlRouteUnchecked(ev) ==
    IF "handler" \notin DOMAIN ev THEN "raise"
    ELSE IF ev.handler.type = "str" /\ ev.handler.repr \in
              {"update_stock_table", "update_predict",
               "update_and_predict_tables", "update_model", ""}
         THEN (IF ev.handler.repr = "" THEN "update_stock_table" ELSE ev.handler.repr)
         ELSE "wrong handler"
MlRoute(ev) ==
    IF "handler" \notin DOMAIN ev \/ ev.handler.type # "str" THEN "raise"
    ELSE IF ev.handler.repr \in {"update_stock_table", "update_predict",
                                 "update_and_predict_tables", "update_model"}
         THEN ev.handler.repr
         ELSE "wrong handler"

\* app handler, lines 139-140, 289, 382, 491, 508 and 584-587
AppRoute(ev) ==
    IF "handler" \notin DOMAIN ev THEN "no handler"
    ELSE IF ev.handler.type = "str" /\ ev.handler.repr \in
              {"update_stock_table", "update_predict",
               "update_and_predict_tables", "update_model"}
         THEN ev.handler.repr
         ELSE "wrong handler"

\* yf.download(start=<date of max>, end=<tomorrow>): the rows the exchange
\* has published from that day on
Published(start_day, clock) ==
    {r \in AllRows : r[1] >= start_day /\ RowLe(r, clock)}

\* fetch_stock_data, lines 107-110: the rows past the watermark
NewerOrEqual(rows, start) == {r \in rows : RowLe(start, r)}
Newer(rows, start) == {r \in rows : RowLt(start, r)}

\* update_predict, lines 285-309: the rows of the days from the day of the
\* prediction watermark to the day of the stock watermark, those of the first
\* day after the watermark's time only
UnpredictedFromDay(tbl, p, stock_max) ==
    {r \in tbl : r[1] >= p[1] /\ DateStrLe(r[1], stock_max)}
Unpredicted(tbl, p, stock_max) ==
    {r \in tbl : /\ r[1] >= p[1]
                 /\ DateStrLe(r[1], stock_max)
                 /\ (r[1] = p[1] => r[2] > p[2])}

\* update_model, lines 400-433: the rows of the days after the day of the
\* train watermark, up to the day of the stock watermark
UntrainedFromSameDay(tbl, t, u) == {r \in tbl : r[1] >= t[1] /\ r[1] <= u[1]}
Untrained(tbl, t, u) == {r \in tbl : r[1] >= t[1] + 1 /\ r[1] <= u[1]}

\* shift_dataframe: the target of a row is the value shift_rows rows later,
\* the last shift_rows rows have none and are dropped
ShiftDataframe(df, shift_rows) ==
    IF Len(df) > shift_rows THEN SubSeq(df, 1, Len(df) - shift_rows) ELSE <<>>

\* the API is not called while the ML lambda is looked at
ApiIdle ==
    /\ time_list = <<>>
    /\ saturday = 5
    /\ sunday = 6
    /\ dict_order = <<>>
    /\ event = <<>>
    /\ table = {}
    /\ todays_date = <<>>
    /\ table_reads = 0
    /\ record = NoRecord
    /\ response = NoResponse
    /\ returned = NotReturned
    /\ pred_time = NoRecord
    /\ prediction_dict = <<>>
    /\ prediction_base_hour = -1
    /\ time_list_index = -1
    /\ loop_i = 0
    /\ response_body = <<>>
    /\ raised = NoError
    /\ pc = "off"

NotRead == [kind |-> "unread", day |-> 0, slot |-> 0]
NothingRead == [op \in Operations |-> NotRead]
Results == Functions \cup {"handler"}
NoResults == [f \in Results |-> NoResult]

\* the tables, the watermarks and the models at one moment
Store == [stock_table |-> stock_table, prediction_table |-> prediction_table,
          limit_table |-> limit_table, models |-> models]

\* the state the scripts of script/init_dynamodb.py leave: the stock table
\* filled up to the clock, the models fitted on it, the prediction table
\* emptied with "0" as its watermark; or the prediction table filled by the
\* lambda up to the last stock row
InitMl ==
    /\ ApiIdle
    /\ variant \in Variants
    /\ \E s \in 1 .. SlotsPerDay : now = <<1, s>>
    /\ stock_table = Published(1, now)
    /\ \E reset \in BOOLEAN :
          /\ prediction_table = IF reset THEN {} ELSE stock_table
          /\ limit_table =
                [op \in Operations |->
                    IF op = "prediction" /\ reset THEN Zero
                    ELSE IsoDatetime(LastRow(stock_table))]
    /\ models = [i \in 1 .. ModelsNumber |-> <<>>]
    /\ predicted = [r \in AllRows |-> IF r \in prediction_table THEN 1 ELSE 0]
    /\ ml_event = [path |-> PyStr("/")]
    /\ ml_pc = "idle"
    /\ ml_read = NothingRead
    /\ ml_batch = {}
    /\ ml_i = 0
    /\ ml_chain = FALSE
    /\ ml_result = NoResults
    /\ ml_raised = NoError
    /\ ml_before = Store
    /\ runs = 0
    /\ trained = [r \in AllRows |-> 0]
    /\ SideIdle

Idle == ml_pc \in {"idle", "done", "raised"}

\* the exchange publishes the next row
Tick ==
    /\ Idle
    /\ now # <<MaxDay, SlotsPerDay>>
    /\ now' = IF now[2] < SlotsPerDay THEN <<now[1], now[2] + 1>>
              ELSE <<now[1] + 1, 1>>
    /\ UNCHANGED <<apiVars, sideVars, trained, variant, storeVars, predicted, ml_event, ml_pc,
                   ml_read, ml_batch, ml_i, ml_chain, ml_result, ml_raised,
                   ml_before, runs>>

\* a function returns: handler returns as well, or goes on with update_predict
Returns(f, res) ==
    /\ ml_result' = [ml_result EXCEPT ![f] = res]
    /\ ml_pc' = IF f = "update_stock_table" /\ ml_chain
                THEN "update_predict" ELSE "done"
    /\ ml_chain' = FALSE
    /\ UNCHANGED ml_raised

\* an exception leaves the function and handler
Raises(e) ==
    /\ ml_raised' = e
    /\ ml_pc' = "raised"
    /\ ml_chain' = FALSE
    /\ UNCHANGED ml_result

\* ml_lambda handler, lines 501-617; app handler, lines 139-140 and 289-587
MlHandler ==
    /\ Idle
    /\ runs < MaxRuns
    /\ runs' = runs + 1
    /\ \E ev \in MlEvents :
          LET route == IF variant = "ml_lambda" THEN MlRoute(ev) ELSE AppRoute(ev)
          IN /\ ml_event' = ev
             /\ IF route = "raise"
                THEN /\ ml_pc' = "raised"
                     /\ ml_raised' = HandlerIsNone
                     /\ ml_result' = NoResults
                     /\ ml_chain' = FALSE
                ELSE IF route \in {"wrong handler", "no handler"}
                THEN /\ ml_pc' = "done"
                     /\ ml_raised' = NoError
                     /\ ml_result' = [NoResults EXCEPT !["handler"] = Message(route)]
                     /\ ml_chain' = FALSE
                ELSE /\ ml_pc' = IF route = "update_and_predict_tables"
                                 THEN "update_stock_table" ELSE route
                     /\ ml_raised' = NoError
                     /\ ml_result' = NoResults
                     /\ ml_chain' = (route = "update_and_predict_tables")
    /\ ml_before' = Store
    /\ ml_read' = NothingRead
    /\ ml_batch' = {}
    /\ ml_i' = 0
    /\ UNCHANGED <<apiVars, sideVars, trained, variant, now, storeVars, predicted>>

\* update_stock_table, ml_lambda lines 160-181 with fetch_stock_data 74-110;
\* app lines 292-355
UpdateStockTableRead ==
    /\ ml_pc = "update_stock_table"
    /\ ml_read' = [ml_read EXCEPT !["stock"] = limit_table["stock"]]
    /\ \E answered \in BOOLEAN :
          LET last_update_date == ToDatetime(limit_table["stock"])
              download == IF answered
                          THEN Published(last_update_date.v[1], now) ELSE {}
              newer == Newer(download, last_update_date.v)
          IN IF ~last_update_date.ok
             THEN Raises(last_update_date.err) /\ UNCHANGED ml_batch
             ELSE IF download = {}
             THEN /\ IF variant = "ml_lambda"
                     THEN Returns("update_stock_table", Count(0))
                     ELSE Raises(EmptyDownload)
                  /\ UNCHANGED ml_batch
             ELSE IF newer = {}
             THEN /\ Returns("update_stock_table",
                             IF variant = "ml_lambda" THEN Count(0)
                             ELSE Message("no data to update"))
                  /\ UNCHANGED ml_batch
             ELSE /\ ml_batch' = newer
                  /\ ml_pc' = "stock_write"
                  /\ UNCHANGED <<ml_chain, ml_result, ml_raised>>
    /\ UNCHANGED <<apiVars, sideVars, trained, variant, now, storeVars, predicted, ml_event, ml_i,
                   ml_before, runs>>

\* ml_lambda lines 183-190; app lines 357-360
UpdateStockTableWrite ==
    /\ ml_pc = "stock_write"
    /\ stock_table' = stock_table \cup ml_batch
    /\ ml_pc' = "stock_limit"
    /\ UNCHANGED <<apiVars, sideVars, trained, variant, now, prediction_table, limit_table, models,
                   predicted, ml_event, ml_read, ml_batch, ml_i, ml_chain,
                   ml_result, ml_raised, ml_before, runs>>

\* ml_lambda lines 192-206; app lines 362-379
UpdateStockTableLimit ==
    /\ ml_pc = "stock_limit"
    /\ limit_table' = [limit_table EXCEPT !["stock"] = IsoDatetime(LastRow(ml_batch))]
    /\ Returns("update_stock_table",
               IF variant = "ml_lambda" THEN Count(Cardinality(ml_batch))
               ELSE Message("success to update stock table"))
    /\ UNCHANGED <<apiVars, sideVars, trained, variant, now, stock_table, prediction_table, models,
                   predicted, ml_event, ml_read, ml_batch, ml_i, ml_before, runs>>

\* whether update_predict scans the whole stock table: ml_lambda lines 274-283
\* parse the watermark and then compare the Timestamp with "0"; app line 389
\* compares the string it read
TakesFullScanAlways(v, max) == max.kind = "zero"
TakesFullScan(v, max) ==
    IF v = "ml_lambda"
    THEN ToDatetime(max).ok /\ TimestampIsZero(ToDatetime(max).v)
    ELSE max.kind = "zero"

\* update_predict, ml_lambda lines 274-312; app lines 385-429
UpdatePredictRead ==
    /\ ml_pc = "update_predict"
    /\ LET max == limit_table["prediction"]
           stock_max == limit_table["stock"]
           parsed == ToDatetime(max)
           scan == TakesFullScan(variant, max)
           rows == IF scan THEN stock_table
                   ELSE Unpredicted(stock_table, parsed.v, stock_max)
           empty_day == /\ DateStrLe(parsed.v[1], stock_max)
                        /\ \A r \in stock_table : r[1] # parsed.v[1]
       IN /\ ml_read' = [ml_read EXCEPT
                            !["prediction"] = max,
                            !["stock"] = IF scan \/ ~parsed.ok THEN @ ELSE stock_max]
          /\ IF ~scan /\ ~parsed.ok
             THEN Raises(parsed.err) /\ UNCHANGED ml_batch
             ELSE IF ~scan /\ empty_day
             THEN Raises(NoTimeColumn) /\ UNCHANGED ml_batch
             ELSE IF rows = {}
             THEN /\ Returns("update_predict",
                             IF variant = "ml_lambda" THEN Count(0)
                             ELSE Message("no data to predict"))
                  /\ UNCHANGED ml_batch
             ELSE /\ ml_batch' = rows
                  /\ ml_pc' = "predict_write"
                  /\ UNCHANGED <<ml_chain, ml_result, ml_raised>>
    /\ UNCHANGED <<apiVars, sideVars, trained, variant, now, storeVars, predicted, ml_event, ml_i,
                   ml_before, runs>>

\* ml_lambda lines 314-360; app lines 431-470
UpdatePredictWrite ==
    /\ ml_pc = "predict_write"
    /\ prediction_table' = prediction_table \cup ml_batch
    /\ predicted' = [r \in AllRows |->
                        IF r \in ml_batch THEN predicted[r] + 1 ELSE predicted[r]]
    /\ ml_pc' = "predict_limit"
    /\ UNCHANGED <<apiVars, sideVars, trained, variant, now, stock_table, limit_table, models,
                   ml_event, ml_read, ml_batch, ml_i, ml_chain, ml_result,
                   ml_raised, ml_before, runs>>

\* ml_lambda lines 362-372; app lines 472-488
UpdatePredictLimit ==
    /\ ml_pc = "predict_limit"
    /\ limit_table' = [limit_table EXCEPT
                          !["prediction"] = IsoDatetime(LastRow(ml_batch))]
    /\ Returns("update_predict",
               IF variant = "ml_lambda" THEN Count(Cardinality(ml_batch))
               ELSE Message("success to update predict"))
    /\ UNCHANGED <<apiVars, sideVars, trained, variant, now, stock_table, prediction_table, models,
                   predicted, ml_event, ml_read, ml_batch, ml_i, ml_before, runs>>

\* update_model, ml_lambda lines 400-436; app lines 511-542
UpdateModelRead ==
    /\ ml_pc = "update_model"
    /\ LET last_train == ToDatetime(limit_table["train"])
           last_stock == ToDatetime(limit_table["stock"])
           rows == Untrained(stock_table, last_train.v, last_stock.v)
       IN /\ ml_read' = [ml_read EXCEPT !["train"] = limit_table["train"],
                                        !["stock"] = limit_table["stock"]]
          /\ IF ~last_train.ok \/ ~last_stock.ok
             THEN Raises(ParseError) /\ UNCHANGED <<ml_batch, ml_i>>
             ELSE IF rows = {}
             THEN /\ Returns("update_model",
                             IF variant = "ml_lambda" THEN Count(0)
                             ELSE Message("no data to train"))
                  /\ UNCHANGED <<ml_batch, ml_i>>
             ELSE /\ ml_batch' = rows
                  /\ ml_i' = 1
                  /\ ml_pc' = "model_fit"
                  /\ UNCHANGED <<ml_chain, ml_result, ml_raised>>
          /\ trained' = [r \in AllRows |->
                            IF last_train.ok /\ last_stock.ok /\ r \in rows
                            THEN trained[r] + 1 ELSE trained[r]]
    /\ UNCHANGED <<apiVars, sideVars, variant, now, storeVars, predicted, ml_event,
                   ml_before, runs>>

\* one turn of the loop over the models: ml_lambda lines 444-459; app lines
\* 549-565. partial_fit refuses a frame without rows.
UpdateModelFit ==
    /\ ml_pc = "model_fit"
    /\ LET train_df == ShiftDataframe(SortRows(ml_batch), ml_i)
       IN IF train_df = <<>>
          THEN Raises(NoSamples) /\ UNCHANGED <<models, ml_i>>
          ELSE /\ models' = [models EXCEPT ![ml_i] = Append(@, train_df)]
               /\ ml_i' = ml_i + 1
               /\ ml_pc' = IF ml_i = ModelsNumber THEN "model_limit" ELSE "model_fit"
               /\ UNCHANGED <<ml_chain, ml_result, ml_raised>>
    /\ UNCHANGED <<apiVars, sideVars, trained, variant, now, stock_table, prediction_table,
                   limit_table, predicted, ml_event, ml_read, ml_batch,
                   ml_before, runs>>

\* ml_lambda lines 461-471; app lines 567-582
UpdateModelLimit ==
    /\ ml_pc = "model_limit"
    /\ limit_table' = [limit_table EXCEPT
                          !["train"] = DateOnly(ToDatetime(ml_read["stock"]).v[1])]
    /\ Returns("update_model",
               IF variant = "ml_lambda" THEN Count(Cardinality(ml_batch))
               ELSE Message("success to update model"))
    /\ UNCHANGED <<apiVars, sideVars, trained, variant, now, stock_table, prediction_table, models,
                   predicted, ml_event, ml_read, ml_batch, ml_i, ml_before, runs>>

NextMl ==
    \/ Tick
    \/ MlHandler
    \/ UpdateStockTableRead
    \/ UpdateStockTableWrite
    \/ UpdateStockTableLimit
    \/ UpdatePredictRead
    \/ UpdatePredictWrite
    \/ UpdatePredictLimit
    \/ UpdateModelRead
    \/ UpdateModelFit
    \/ UpdateModelLimit

\* the calls of the ML lambda, one after the other
SpecMl == InitMl /\ [][NextMl]_vars

----------------------------------------------------------------------------
(* delete_prediction_table of script/init_dynamodb.py, and the handler
   delete_pred_table_item of app/lambda_function.py *)

\* items in one answer of scan
PageItems == 4

\* table.scan()["Items"]: the whole table, or the first page of a larger one
ScanPages(tbl) ==
    IF Cardinality(tbl) <= PageItems THEN {tbl}
    ELSE {page \in SUBSET tbl : Cardinality(page) = PageItems}

\* delete_item for every scanned key
DeleteAllButLast(tbl, keys) ==
    IF keys = {} THEN tbl ELSE tbl \ (keys \ {LastRow(keys)})
DeleteAll(tbl, keys) == tbl \ keys

DeleteEvent == [handler |-> PyStr("delete_pred_table_item")]

\* script lines 160-161; app line 217
DeleteScan ==
    /\ Idle
    /\ runs < MaxRuns
    /\ runs' = runs + 1
    /\ ml_event' = DeleteEvent
    /\ ml_before' = Store
    /\ \E page \in ScanPages(prediction_table) : ml_batch' = page
    /\ ml_pc' = "delete_items"
    /\ ml_read' = NothingRead
    /\ ml_i' = 0
    /\ ml_chain' = FALSE
    /\ ml_result' = NoResults
    /\ ml_raised' = NoError
    /\ UNCHANGED <<apiVars, sideVars, trained, variant, now, storeVars, predicted>>

\* script lines 163-186; app lines 219-242
DeleteItems ==
    /\ ml_pc = "delete_items"
    /\ prediction_table' = DeleteAll(prediction_table, ml_batch)
    /\ limit_table' = [limit_table EXCEPT !["prediction"] = Zero]
    /\ ml_pc' = "done"
    /\ UNCHANGED <<apiVars, sideVars, trained, variant, now, stock_table, models,
                   predicted, ml_event, ml_read, ml_batch, ml_i, ml_chain,
                   ml_result, ml_raised, ml_before, runs>>

NextScript == NextMl \/ DeleteScan \/ DeleteItems

\* the calls of the ML lambda and of the script, one after the other
SpecScript == InitMl /\ [][NextScript]_vars

----------------------------------------------------------------------------
(* shift_dataframe of ml_lambda/app/modules/data_preprocessing.py and
   script/modules/data_preprocessing.py, shift_dataFrame of
   app/modules/dataframe_operations.py: a frame is the sequence of its rows,
   a row has its index label, a feature column and the target column *)

\* rows of the longest frame
MaxRows == 3

\* the value pandas fills in where a shifted column has no value
NaN == -1

FeatureValues == {10, 20}
TargetValues == {1, 2, 3}

\* the frames update_model and init_models pass: rows out of the stock table,
\* every column filled, the index reset
Frames ==
    UNION {[1 .. n -> [index : {0}, feature : FeatureValues, target : TargetValues]]
           : n \in 1 .. MaxRows}

Reindexed(frame) == [i \in 1 .. Len(frame) |-> [frame[i] EXCEPT !.index = i - 1]]

\* the shifts of the models 1 .. MODEL_NUM, and no shift
Shifts == 0 .. MaxRows + 1

\* df[target_col].shift(-shift_rows)
ShiftColumnBackwards(frame, k) ==
    [i \in 1 .. Len(frame) |->
        [frame[i] EXCEPT !.target = IF i - k >= 1 THEN frame[i - k].target ELSE NaN]]
ShiftColumn(frame, k) ==
    [i \in 1 .. Len(frame) |->
        [frame[i] EXCEPT !.target = IF i + k <= Len(frame) THEN frame[i + k].target
                                    ELSE NaN]]

\* dropna(subset=[target_col])
DropNa(frame) == SelectSeq(frame, LAMBDA row : row.target # NaN)

\* the frame of the caller after the call, and the frame returned; without
\* df.copy() the two are one object
ShiftInPlace(frame, k) ==
    [df |-> DropNa(ShiftColumn(frame, k)), df_shifted |-> DropNa(ShiftColumn(frame, k))]
ShiftCopy(frame, k) ==
    [df |-> frame, df_shifted |-> DropNa(ShiftColumn(frame, k))]

InitShift ==
    /\ ApiIdle
    /\ MlAtRest
    /\ RaceIdle
    /\ UploadIdle
    /\ \E frame \in Frames : caller_df = Reindexed(frame)
    /\ caller_shift \in Shifts
    /\ df_shifted = <<>>
    /\ shift_pc = "call"

\* shift_dataframe, lines 39-42
ShiftCall ==
    /\ shift_pc = "call"
    /\ LET r == ShiftCopy(caller_df, caller_shift)
       IN caller_df' = r.df /\ df_shifted' = r.df_shifted
    /\ shift_pc' = "done"
    /\ UNCHANGED <<apiVars, variant, now, storeVars, predicted, ml_event, ml_pc,
                   ml_read, ml_batch, ml_i, ml_chain, ml_result, ml_raised,
                   ml_before, runs, trained, raceVars, uploadVars, caller_shift>>

NextShift == ShiftCall

SpecShift == InitShift /\ [][NextShift]_vars

----------------------------------------------------------------------------
(* upload_dynamodb of app/modules/dynamodb_fetcher.py: executor.map hands one
   put_item task per row to a ThreadPoolExecutor, list() waits for the
   results in the order of the rows, the with block waits for the workers *)

\* rows of the longest frame that is uploaded
MaxUploadRows == 3

\* largest thread_pool_size
MaxWorkers == 2

UploadFailed == "Exception: fail to function on upload_dynamodb"

UploadRows == DOMAIN up_task

Running == {r \in UploadRows : up_task[r] = "running"}

\* the tasks a free worker may take off the queue of the executor
WaitingOrRunning(tasks) == {r \in DOMAIN tasks : tasks[r] \in {"pending", "running"}}
Waiting(tasks) == {r \in DOMAIN tasks : tasks[r] = "pending"}

\* the queue is first in, first out
FirstWaiting(tasks) ==
    CHOOSE r \in Waiting(tasks) : \A q \in Waiting(tasks) : r <= q

\* lines 94-127: the client is made and executor.map has submitted every row
InitUpload ==
    /\ ApiIdle
    /\ MlAtRest
    /\ RaceIdle
    /\ ShiftIdle
    /\ thread_pool_size \in 1 .. MaxWorkers
    /\ \E n \in 0 .. MaxUploadRows :
          /\ up_task = [r \in 1 .. n |-> "pending"]
          /\ up_puts = [r \in 1 .. n |-> 0]
    /\ up_next = 1
    /\ up_pc = "collect"

UploadOthers == <<apiVars, variant, now, storeVars, predicted, ml_event, ml_pc,
                  ml_read, ml_batch, ml_i, ml_chain, ml_result, ml_raised,
                  ml_before, runs, trained, raceVars, shiftVars, thread_pool_size>>

\* a free worker takes the next task and calls put_item, lines 109-122
WorkerTakes ==
    /\ up_pc \in {"collect", "shutdown", "shutdown_failed"}
    /\ Cardinality(Running) < thread_pool_size
    /\ Waiting(up_task) # {}
    /\ LET r == FirstWaiting(up_task)
       IN /\ up_task' = [up_task EXCEPT ![r] = "running"]
          /\ up_puts' = [up_puts EXCEPT ![r] = @ + 1]
    /\ UNCHANGED <<UploadOthers, up_next, up_pc>>

\* dynamodb.put_item returns
PutCompletes ==
    /\ \E r \in Running : up_task' = [up_task EXCEPT ![r] = "done"]
    /\ UNCHANGED <<UploadOthers, up_puts, up_next, up_pc>>

\* dynamodb.put_item raises
PutFails ==
    /\ \E r \in Running : up_task' = [up_task EXCEPT ![r] = "failed"]
    /\ UNCHANGED <<UploadOthers, up_puts, up_next, up_pc>>

\* line 127, list(): the next result is there, or all have been taken
CollectResult ==
    /\ up_pc = "collect"
    /\ IF up_next \in UploadRows
       THEN /\ up_task[up_next] = "done"
            /\ up_next' = up_next + 1
            /\ UNCHANGED up_pc
       ELSE /\ up_pc' = "shutdown"
            /\ UNCHANGED up_next
    /\ UNCHANGED <<UploadOthers, up_task, up_puts>>

\* line 127, list(): the next result is an exception; the iterator of
\* executor.map cancels the tasks no worker has taken, where the Python at
\* hand does so
CollectFailure ==
    /\ up_pc = "collect"
    /\ up_next \in UploadRows
    /\ up_task[up_next] = "failed"
    /\ \E cancels \in BOOLEAN :
          up_task' = [r \in UploadRows |->
                         IF cancels /\ up_task[r] = "pending" THEN "cancelled"
                         ELSE up_task[r]]
    /\ up_pc' = "shutdown_failed"
    /\ UNCHANGED <<UploadOthers, up_puts, up_next>>

\* the end of the with block waits for every task taken or waiting; line 135
ShutdownReturns ==
    /\ up_pc = "shutdown"
    /\ WaitingOrRunning(up_task) = {}
    /\ up_pc' = "returned"
    /\ UNCHANGED <<UploadOthers, up_task, up_puts, up_next>>

\* lines 129-133
ShutdownRaises ==
    /\ up_pc = "shutdown_failed"
    /\ WaitingOrRunning(up_task) = {}
    /\ up_pc' = "raised"
    /\ UNCHANGED <<UploadOthers, up_task, up_puts, up_next>>

NextUpload ==
    \/ WorkerTakes
    \/ PutCompletes
    \/ PutFails
    \/ CollectResult
    \/ CollectFailure
    \/ ShutdownReturns
    \/ ShutdownRaises

SpecUpload == InitUpload /\ [][NextUpload]_vars

----------------------------------------------------------------------------
(* What the properties speak of *)

\* the calendar day after dt, by the calendar and not by replace(day=...)
NextDay(dt) ==
    IF dt.day < DaysInMonth(dt.year, dt.month) THEN [dt EXCEPT !.day = dt.day + 1]
    ELSE IF dt.month < 12 THEN [dt EXCEPT !.month = dt.month + 1, !.day = 1]
    ELSE [dt EXCEPT !.year = dt.year + 1, !.month = 1, !.day = 1]

RECURSIVE PlusDays(_, _)
PlusDays(dt, n) == IF n = 0 THEN dt ELSE PlusDays(NextDay(dt), n - 1)

SameDate(a, b) == SameDay(a, b)

\* the call ended in an exception of the per-key loop
RaisedInLoop == pc = "raised" /\ raised \in {DayOutOfRange, IndexOutOfRange}

\* the key whose iteration raised
FailedKey == prediction_dict[loop_i + 1]

\* the keys whose iteration has run: the resolved ones and the one that raised
Attempted == DOMAIN response_body \cup (IF RaisedInLoop THEN {FailedKey} ELSE {})

Resolved(k) == k \in DOMAIN response_body

TargetIndex(k) == time_list_index + k

\* the offset is in the documented domain and leaves the trading day
InDomainOverflow(k) ==
    /\ k < 2 * Len(time_list)
    /\ TargetIndex(k) >= Len(time_list)

\* the slot after the wraparound is a slot of the list
WrapsOnce(k) ==
    /\ TargetIndex(k) >= Len(time_list)
    /\ TargetIndex(k) < 2 * Len(time_list)

----------------------------------------------------------------------------
(* Properties *)

\* C1: for every base datetime, every hour list and every offset below
\* 2 * len(time_list), the per-key loop yields a datetime and never raises.
C1_LoopNeverRaises ==
    RaisedInLoop => FailedKey >= 2 * Len(time_list)

\* C2: for every offset below 2 * len(time_list) that leaves the trading day,
\* target_index - len(time_list) is a valid index of time_list and the result
\* hour is the element at that index.
C2_OverflowSlotValid ==
    \A k \in Attempted :
        InDomainOverflow(k) =>
            /\ TargetIndex(k) - Len(time_list) < Len(time_list)
            /\ Resolved(k) =>
                  response_body[k].hour = At(time_list, TargetIndex(k) - Len(time_list))

\* C3: when the slot leaves the trading day and the day after the base date
\* is neither the configured Saturday nor the configured Sunday, the result
\* date is the calendar day after the base date, across month and year ends.
C3_NextCalendarDay ==
    \A k \in Attempted :
        (WrapsOnce(k) /\ Weekday(NextDay(pred_time)) \notin {saturday, sunday}) =>
            /\ Resolved(k)
            /\ SameDate(response_body[k], NextDay(pred_time))

\* C4: with saturday = 5 and sunday = 6, when the slot leaves the trading day
\* and the day after the base date is a Saturday the result date is the base
\* date plus 3 days, when it is a Sunday the base date plus 2 days; the result
\* is a Monday in both cases.
C4_WeekendSkipsToMonday ==
    (saturday = 5 /\ sunday = 6) =>
        \A k \in Attempted :
            (WrapsOnce(k) /\ Weekday(NextDay(pred_time)) \in {5, 6}) =>
                /\ Resolved(k)
                /\ Weekday(NextDay(pred_time)) = 5 =>
                      SameDate(response_body[k], PlusDays(pred_time, 3))
                /\ Weekday(NextDay(pred_time)) = 6 =>
                      SameDate(response_body[k], PlusDays(pred_time, 2))
                /\ Weekday(response_body[k]) = 0

\* C5: when target_index < len(time_list) the iteration does not raise, the
\* result keeps the base date and has hour time_list[target_index], also when
\* the base date is itself a Saturday or a Sunday.
C5_SameDayKeepsDate ==
    \A k \in Attempted :
        TargetIndex(k) < Len(time_list) =>
            /\ Resolved(k)
            /\ SameDate(response_body[k], pred_time)
            /\ response_body[k].hour = At(time_list, TargetIndex(k))

C5_Witness ==
    \E k \in DOMAIN response_body :
        /\ k >= 1
        /\ TargetIndex(k) < Len(time_list)
        /\ Weekday(pred_time) = saturday
        /\ response_body[k].hour # pred_time.hour

\* C6: for a record hour that is a member of time_list, the resolved base hour
\* is that hour and time_list_index is its position in the list.
C6_MemberHourIsKept ==
    (pc # "base_hour" /\ pred_time.hour \in Range(time_list)) =>
        /\ prediction_base_hour = pred_time.hour
        /\ raised # NotInList
        /\ time_list_index \in 0 .. Len(time_list) - 1
        /\ At(time_list, time_list_index) = pred_time.hour

C6_Witness ==
    /\ pc = "loop"
    /\ pred_time.hour \in Range(time_list)
    /\ time_list_index = Len(time_list) - 1
    /\ time_list_index >= 1

\* C7: for a record hour that is not in time_list, the resolved base hour is
\* an element at the smallest absolute difference from it, and among the
\* elements at that difference the first of the list; [9, 11, 13] and hour 10
\* give 9.
C7_NearestFirstInListOrder ==
    (pc # "base_hour" /\ pred_time.hour \notin Range(time_list)) =>
        /\ \E j \in 1 .. Len(time_list) :
              /\ time_list[j] = prediction_base_hour
              /\ \A l \in 1 .. Len(time_list) :
                    /\ Abs(time_list[j] - pred_time.hour) <= Abs(time_list[l] - pred_time.hour)
                    /\ Abs(time_list[l] - pred_time.hour) = Abs(time_list[j] - pred_time.hour)
                          => j <= l
        /\ (time_list = <<9, 11, 13>> /\ pred_time.hour = 10) => prediction_base_hour = 9

C7_Witness ==
    /\ pc = "loop"
    /\ time_list = <<9, 11, 13>>
    /\ pred_time.hour = 10
    /\ prediction_base_hour = 9

\* C8: for every record hour and every non-empty time_list the resolved base
\* hour is a member of time_list, and time_list.index never raises.
C8_BaseHourIsMember ==
    pc # "base_hour" =>
        /\ raised # NotInList
        /\ prediction_base_hour \in Range(time_list)
        /\ time_list_index \in 0 .. Len(time_list) - 1

C8_Witness ==
    /\ pc = "loop"
    /\ pred_time.hour = 23
    /\ prediction_base_hour = 15
    /\ time_list_index = 2

\* C9: every resolved datetime has an hour that is a member of time_list.
C9_ResolvedHourIsMember ==
    \A k \in DOMAIN response_body : response_body[k].hour \in Range(time_list)

C9_Witness ==
    /\ pred_time.hour \notin Range(time_list)
    /\ \E k, l \in DOMAIN response_body :
          /\ 1 <= k /\ TargetIndex(k) < Len(time_list)
          /\ TargetIndex(l) >= Len(time_list)

\* C10: the minute and the second of every resolved datetime are the minute
\* and the second of the base datetime.
C10_MinuteSecondCarried ==
    \A k \in DOMAIN response_body :
        /\ response_body[k].minute = pred_time.minute
        /\ response_body[k].second = pred_time.second

C10_Witness ==
    /\ pred_time.minute = 30
    /\ pred_time.second = 15
    /\ \E k \in DOMAIN response_body :
          /\ TargetIndex(k) >= Len(time_list)
          /\ response_body[k].hour # pred_time.hour
          /\ ~SameDate(response_body[k], pred_time)


\* C12: for an offset of 2 * len(time_list) or more the loop still yields a
\* datetime and does not raise.
C12_OutOfDomainReturns ==
    RaisedInLoop => FailedKey < 2 * Len(time_list)

----------------------------------------------------------------------------
(* The whole handler: the response, the dispatch and the selection *)

\* what a string of decimal digits reads as
DigitValue(c) == CHOOSE d \in 0 .. 9 : DigitChars[d + 1] = c

RECURSIVE Number(_)
Number(s) ==
    IF s = <<>> THEN 0
    ELSE 10 * Number(SubSeq(s, 1, Len(s) - 1)) + DigitValue(s[Len(s)])

\* what a YYYY-MM-DDTHH:MM:SS string reads as
ParseIso(s) ==
    Datetime(Number(SubSeq(s, 1, 4)), Number(SubSeq(s, 6, 7)),
             Number(SubSeq(s, 9, 10)), Number(SubSeq(s, 12, 13)),
             Number(SubSeq(s, 15, 16)), Number(SubSeq(s, 18, 19)))

IsoShaped(s) ==
    /\ Len(s) = 19
    /\ s[5] = "-" /\ s[8] = "-" /\ s[11] = "T" /\ s[14] = ":" /\ s[17] = ":"

HasResponse == pc = "done" /\ "prediction" \in DOMAIN returned

\* C13: the returned response carries the create_at of the selected record
\* as prediction_timestamp, and one entry "<key>_hour_prediction" per horizon
\* key of dict_order and no other; the entry holds the record's value of the
\* key as a string and the datetime resolved for the key in ISO-8601 form.
C13_ResponseShape ==
    HasResponse =>
        /\ DOMAIN returned = {"prediction_timestamp", "prediction"}
        /\ returned.prediction_timestamp = record.create_at
        /\ DOMAIN returned.prediction = {EntryLabel(k) : k \in Range(dict_order)}
        /\ \A k \in Range(dict_order) :
              LET e == returned.prediction[EntryLabel(k)]
                  dv == DatetimeValue(pred_time, time_list_index, k, time_list,
                                      saturday, sunday)
              IN /\ DOMAIN e = {"value", "datetime"}
                 /\ Number(e.value) = record.values[k]
                 /\ IsoShaped(e.datetime)
                 /\ dv.ok /\ ParseIso(e.datetime) = dv.v

\* a response of six entries, made from a table of several items
C13_Witness ==
    /\ HasResponse
    /\ Cardinality(DOMAIN returned.prediction) = MaxOffset + 1
    /\ Cardinality(table) > 1

BadEvent == "handler" \notin DOMAIN event \/ event.handler # "latest"

\* C14: an event without a 'handler' key, or with a handler other than
\* 'latest', is answered {"message": "bad request"} and the prediction table
\* is never read for it; fetch_latest_prediction is reached for 'latest' only.
C14_BadRequestReadsNothing ==
    /\ BadEvent => table_reads = 0 /\ pc \in {"handler", "done"}
    /\ (BadEvent /\ pc = "done") => returned = BadRequest
    /\ (~BadEvent /\ pc = "done") => returned # BadRequest

\* a handler value that differs from 'latest' by its case, over a filled table
C14_Witness ==
    /\ pc = "done"
    /\ "handler" \in DOMAIN event
    /\ event.handler = "Latest"
    /\ returned = BadRequest
    /\ table # {}

\* date then time, as one tuple of numbers
Stamp(r) == r.date \o r.time

RECURSIVE LexLe(_, _)
LexLe(a, b) ==
    \/ a = <<>>
    \/ a[1] < b[1]
    \/ a[1] = b[1] /\ LexLe(Tail(a), Tail(b))

Selected == record # NoRecord

C15_WitnessToday ==
    /\ Selected
    /\ Cardinality({r \in table : r.date = todays_date}) = 2
    /\ Cardinality(table) >= 3

----------------------------------------------------------------------------
(* The ML lambda: dispatch and the three watermarks *)

HandlerEnded == runs > 0 /\ ml_pc \in {"done", "raised"}

NotAString == "handler" \notin DOMAIN ml_event \/ ml_event.handler.type # "str"

UnknownName ==
    /\ ~NotAString
    /\ ml_event.handler.repr \notin {"update_stock_table", "update_predict",
                                     "update_and_predict_tables", "update_model"}

\* C16: the handler of ml_lambda raises ValueError for an event without a
\* 'handler' key or with a handler that is not a string, before it reads or
\* writes a table; for a string that names none of the four operations, the
\* empty string included, it returns "wrong handler" and leaves the tables,
\* the watermarks and the models as they were.
C16_HandlerDispatch ==
    (variant = "ml_lambda" /\ HandlerEnded) =>
        /\ NotAString =>
              /\ ml_pc = "raised" /\ ml_raised = HandlerIsNone
              /\ ml_read = NothingRead /\ Store = ml_before
        /\ UnknownName =>
              /\ ml_pc = "done" /\ ml_raised = NoError
              /\ ml_result["handler"] = Message("wrong handler")
              /\ ml_read = NothingRead /\ Store = ml_before
        /\ (~NotAString /\ ~UnknownName) => ml_result["handler"] = NoResult

\* the empty string as handler, after an earlier call has changed the tables
C16_Witness ==
    /\ variant = "ml_lambda"
    /\ HandlerEnded
    /\ ~NotAString
    /\ ml_event.handler.repr = ""
    /\ ml_result["handler"] = Message("wrong handler")
    /\ Cardinality(stock_table) > SlotsPerDay

\* update_stock_table has ended and update_predict has not begun
StockEnded ==
    /\ ml_read["stock"] # NotRead
    /\ ml_read["prediction"] = NotRead
    /\ ml_read["train"] = NotRead
    /\ ml_pc \in {"done", "raised", "update_predict"}

StockWatermarkRead == <<ml_read["stock"].day, ml_read["stock"].slot>>

\* C17 as stated: the rows written are past the watermark read; after a
\* write the watermark is the last written row and the number of rows is
\* returned; when nothing is written 0 or 'no data to update' is returned and
\* table and watermark stay.
C17_WritesPastWatermark ==
    StockEnded =>
        /\ stock_table = ml_before.stock_table \cup ml_batch
        /\ \A r \in ml_batch : RowLt(StockWatermarkRead, r)
        /\ ml_batch # {} =>
              /\ limit_table["stock"] = IsoDatetime(LastRow(ml_batch))
              /\ ml_result["update_stock_table"] = Count(Cardinality(ml_batch))
        /\ ml_batch = {} =>
              /\ ml_result["update_stock_table"]
                    \in {Count(0), Message("no data to update")}
              /\ limit_table = ml_before.limit_table

\* C17 as the two variants have it: ml_lambda returns the number of rows, 0
\* when the download is empty or holds nothing newer; app returns the message
\* "success to update stock table" after a write, "no data to update" when
\* the download holds nothing newer, and raises when the download is empty.
\* In every case the rows written are past the watermark read, the watermark
\* follows the last written row, and without a write table and watermark stay.
C17_WritesPastWatermarkByVariant ==
    StockEnded =>
        /\ stock_table = ml_before.stock_table \cup ml_batch
        /\ \A r \in ml_batch : RowLt(StockWatermarkRead, r)
        /\ ml_batch # {} =>
              /\ limit_table["stock"] = IsoDatetime(LastRow(ml_batch))
              /\ ml_raised = NoError
              /\ ml_result["update_stock_table"] =
                    (IF variant = "ml_lambda" THEN Count(Cardinality(ml_batch))
                     ELSE Message("success to update stock table"))
        /\ ml_batch = {} =>
              /\ limit_table = ml_before.limit_table
              /\ IF variant = "ml_lambda"
                 THEN ml_raised = NoError
                      /\ ml_result["update_stock_table"] = Count(0)
                 ELSE \/ ml_raised = NoError
                         /\ ml_result["update_stock_table"] = Message("no data to update")
                      \/ ml_raised = EmptyDownload
                         /\ ml_result["update_stock_table"] = NoResult

\* rows of two days are written in one call
C17_Witness ==
    /\ StockEnded
    /\ Cardinality({r[1] : r \in ml_batch}) = 2
    /\ limit_table["stock"] = IsoDatetime(LastRow(ml_batch))

\* update_predict has ended
PredictEnded == ml_read["prediction"] # NotRead /\ ml_pc \in {"done", "raised"}

\* a row is after a watermark; every row is after "0"
After(r, max) == max.kind = "zero" \/ RowLt(<<max.day, max.slot>>, r)

\* the rows update_predict is to predict
ToPredict ==
    {r \in stock_table : /\ After(r, ml_read["prediction"])
                         /\ r[1] <= limit_table["stock"].day}

\* C18: update_predict writes a prediction for the stock rows after the
\* prediction watermark, up to the day of the stock watermark, and for no
\* other; the watermark is then the last of these rows; no row is predicted
\* twice; with no such row it returns 0 and changes nothing.
C18_PredictsNewRowsOnce ==
    PredictEnded =>
        /\ prediction_table = ml_before.prediction_table \cup ToPredict
        /\ \A r \in AllRows : predicted[r] <= 1
        /\ ToPredict # {} =>
              limit_table["prediction"] = IsoDatetime(LastRow(ToPredict))
        /\ ToPredict = {} =>
              /\ ml_result["update_predict"]
                    \in {Count(0), Message("no data to predict")}
              /\ limit_table["prediction"] = ml_read["prediction"]

\* C19: with "0" as prediction watermark update_predict scans the stock
\* table, predicts every row of it and sets the watermark to the last row.
C19_ResetTakesFullScan ==
    (PredictEnded /\ ml_read["prediction"] = Zero) =>
        /\ ml_raised = NoError
        /\ prediction_table = stock_table
        /\ limit_table["prediction"] = IsoDatetime(LastRow(stock_table))

\* update_model has ended
ModelEnded == ml_read["train"] # NotRead /\ ml_pc \in {"done", "raised"}

\* the rows of the days after the last trained day, up to the day of the
\* stock watermark
ToTrain ==
    {r \in stock_table : /\ r[1] > ml_read["train"].day
                         /\ r[1] <= ml_read["stock"].day}

\* C20: update_model fits every model once on the rows to train on and then
\* sets the train watermark to the date of the stock watermark; with no such
\* row it returns 0 and changes neither the models nor the watermark.
C20_FitsAllThenWatermark ==
    ModelEnded =>
        /\ ToTrain # {} =>
              /\ \A i \in 1 .. ModelsNumber :
                    Len(models[i]) = Len(ml_before.models[i]) + 1
              /\ limit_table["train"] = DateOnly(ml_read["stock"].day)
        /\ ToTrain = {} =>
              /\ ml_result["update_model"]
                    \in {Count(0), Message("no data to train")}
              /\ models = ml_before.models
              /\ limit_table = ml_before.limit_table

----------------------------------------------------------------------------
(* The reset of the predictions *)

DeleteEnded == ml_pc = "done" /\ ml_event = DeleteEvent

\* C21: after delete_prediction_table no scanned item is left in the
\* prediction table and the prediction entry of the limit table holds "0",
\* also when the scan found nothing; the stock and train entries, the stock
\* table and the models are as before.
C21_DeleteResetsWatermark ==
    DeleteEnded =>
        /\ prediction_table \cap ml_batch = {}
        /\ prediction_table \cup ml_batch = ml_before.prediction_table
        /\ limit_table["prediction"] = Zero
        /\ limit_table["stock"] = ml_before.limit_table["stock"]
        /\ limit_table["train"] = ml_before.limit_table["train"]
        /\ stock_table = ml_before.stock_table
        /\ models = ml_before.models

\* the reset of a filled table whose watermark was a datetime
C21_Witness ==
    /\ DeleteEnded
    /\ Cardinality(ml_batch) >= 3
    /\ ml_before.limit_table["prediction"] # Zero
    /\ limit_table["prediction"] = Zero

\* the reset of a table that was empty already
C21_WitnessEmpty ==
    /\ DeleteEnded
    /\ ml_before.prediction_table = {}
    /\ limit_table["prediction"] = Zero
    /\ runs > 1

\* the scan answers with one page of a larger table: the rest stays
C21_WitnessPage ==
    /\ DeleteEnded
    /\ Cardinality(ml_before.prediction_table) > PageItems
    /\ prediction_table # {}

----------------------------------------------------------------------------
(* shift_dataframe *)

Shifted == shift_pc = "done"

\* rows left after a shift
RowsLeft == IF Len(caller_df) > caller_shift THEN Len(caller_df) - caller_shift ELSE 0

\* C22: the returned frame has the rows of the input but the last k; row i
\* keeps its index label and its other columns and has the target of the
\* input's row i + k; for k at or above the number of rows it is empty; the
\* frame of the caller is not modified.
C22_ShiftsTargetOnly ==
    /\ [](Shifted =>
            /\ Len(df_shifted) = RowsLeft
            /\ \A i \in 1 .. RowsLeft :
                  /\ df_shifted[i].index = caller_df[i].index
                  /\ df_shifted[i].feature = caller_df[i].feature
                  /\ df_shifted[i].target = caller_df[i + caller_shift].target)
    /\ [][caller_df' = caller_df]_vars

\* a shift inside the frame that changes the target of the first row
C22_Witness ==
    /\ Shifted
    /\ caller_shift >= 1
    /\ Len(df_shifted) >= 2
    /\ df_shifted[1].target # caller_df[1].target
    /\ df_shifted[2].feature # df_shifted[1].feature

\* a shift of the whole frame or more
C22_WitnessEmpty ==
    /\ Shifted
    /\ caller_shift >= Len(caller_df)
    /\ Len(caller_df) >= 2
    /\ df_shifted = <<>>

----------------------------------------------------------------------------
(* upload_dynamodb *)

\* C23: no row is put twice, however the workers interleave; when
\* upload_dynamodb returns, put_item was called once for every row and every
\* call has completed; with a failed put it does not return, and when it
\* raises, a put has failed and no worker is still at work.
C23_OnePutPerRow ==
    /\ \A r \in UploadRows : up_puts[r] <= 1
    /\ Cardinality(Running) <= thread_pool_size
    /\ up_pc = "returned" =>
          \A r \in UploadRows : up_puts[r] = 1 /\ up_task[r] = "done"
    /\ (\E r \in UploadRows : up_task[r] = "failed") => up_pc # "returned"
    /\ up_pc = "raised" =>
          /\ \E r \in UploadRows : up_task[r] = "failed"
          /\ WaitingOrRunning(up_task) = {}

\* a frame of more rows than workers has been uploaded
C23_Witness ==
    /\ up_pc = "returned"
    /\ Cardinality(UploadRows) > thread_pool_size
    /\ thread_pool_size > 1

\* a put failed while a later row was not yet taken, which then is never put
C23_WitnessRaised ==
    /\ up_pc = "raised"
    /\ \E r \in UploadRows : up_puts[r] = 0

----------------------------------------------------------------------------
(* update_and_predict_tables *)

ChainEvent == [handler |-> PyStr("update_and_predict_tables")]

ChainEnded == HandlerEnded /\ ml_event = ChainEvent

\* the rows update_stock_table of this invocation has added
Fetched == stock_table \ ml_before.stock_table

StockFailed == ml_raised # NoError /\ ml_result["update_stock_table"] = NoResult

\* C24: in update_and_predict_tables update_predict begins after
\* update_stock_table has returned, and the rows the invocation has fetched
\* are predicted by it; when update_stock_table fails update_predict is not
\* run, and the prediction table and its watermark stay.
C24_StockThenPredict ==
    ml_event = ChainEvent =>
        /\ ml_pc \in {"update_predict", "predict_write", "predict_limit"} =>
              ml_result["update_stock_table"] # NoResult
        /\ ml_pc \in {"update_stock_table", "stock_write", "stock_limit"} =>
              ml_read["prediction"] = NotRead
        /\ ChainEnded =>
              IF StockFailed
              THEN /\ ml_read["prediction"] = NotRead
                   /\ prediction_table = ml_before.prediction_table
                   /\ limit_table["prediction"] = ml_before.limit_table["prediction"]
              ELSE Fetched \subseteq prediction_table

----------------------------------------------------------------------------
(* The order of the resolved datetimes, and the reference calendar *)

\* a is before b
DatetimeLt(a, b) == a # b /\ DatetimeLe(a, b)

\* C25: for every two offsets a < b of one call, with base_index + b below
\* 2 * len(time_list), both are resolved and the datetime of a is before the
\* datetime of b.
C25_IncreasingInOffset ==
    \A a, b \in Attempted :
        (a < b /\ TargetIndex(b) < 2 * Len(time_list)) =>
            /\ Resolved(a)
            /\ Resolved(b)
            /\ DatetimeLt(response_body[a], response_body[b])

RECURSIVE NextEligibleDay(_)
\* the first day from dt on that is neither the Saturday nor the Sunday
NextEligibleDay(dt) ==
    IF Weekday(dt) \in {saturday, sunday} THEN NextEligibleDay(NextDay(dt)) ELSE dt

\* one trading slot on: the next hour of the list, or the first hour of the
\* list on the next eligible day
NextSlot(s) ==
    IF s.index + 1 < Len(time_list)
    THEN [dt |-> ReplaceHour(s.dt, At(time_list, s.index + 1)), index |-> s.index + 1]
    ELSE [dt |-> ReplaceHour(NextEligibleDay(NextDay(s.dt)), At(time_list, 0)),
          index |-> 0]

RECURSIVE StepSlots(_, _)
StepSlots(s, n) == IF n = 0 THEN s ELSE StepSlots(NextSlot(s), n - 1)

\* the reference calendar: offset slots on from the base
Reference(k) == StepSlots([dt |-> pred_time, index |-> time_list_index], k).dt

BaseOnWeekdayInList ==
    /\ pc \in {"loop", "raised", "done"}
    /\ Weekday(pred_time) \notin {saturday, sunday}
    /\ pred_time.hour \in Range(time_list)

\* C26: for a base datetime on a weekday with an hour of the list, every
\* offset with base_index + offset below 2 * len(time_list) is resolved to
\* the datetime the reference calendar reaches in offset steps.
C26_EqualsReferenceCalendar ==
    BaseOnWeekdayInList =>
        \A k \in Attempted :
            TargetIndex(k) < 2 * Len(time_list) =>
                /\ Resolved(k)
                /\ response_body[k] = Reference(k)

----------------------------------------------------------------------------
(* Invocations of the ML lambda that overlap in time.  AWS Lambda runs      *)
(* every invocation in an execution environment of its own; the tables are  *)
(* shared, and the locals of update_stock_table and update_predict          *)
(* (inv_pc, inv_read, inv_batch) are one set per invocation.                *)

MaxInvocations == 2
MaxRaceRuns == 3

Invocations == 1 .. MaxInvocations

RaceFunctions == {"update_stock_table", "update_predict"}

\* the tables as the scripts leave them (InitMl), no invocation running
InitRace ==
    /\ ApiIdle
    /\ UploadIdle
    /\ ShiftIdle
    /\ variant \in Variants
    /\ \E s \in 1 .. SlotsPerDay : now = <<1, s>>
    /\ stock_table = Published(1, now)
    /\ \E reset \in BOOLEAN :
          /\ prediction_table = IF reset THEN {} ELSE stock_table
          /\ limit_table =
                [op \in Operations |->
                    IF op = "prediction" /\ reset THEN Zero
                    ELSE IsoDatetime(LastRow(stock_table))]
    /\ models = [i \in 1 .. ModelsNumber |-> <<>>]
    /\ predicted = [r \in AllRows |-> IF r \in prediction_table THEN 1 ELSE 0]
    /\ trained = [r \in AllRows |-> 0]
    /\ ml_event = <<>>
    /\ ml_pc = "off"
    /\ ml_read = <<>>
    /\ ml_batch = {}
    /\ ml_i = 0
    /\ ml_chain = FALSE
    /\ ml_result = <<>>
    /\ ml_raised = NoError
    /\ ml_before = <<>>
    /\ runs = 0
    /\ inv_pc = [i \in Invocations |-> "idle"]
    /\ inv_read = [i \in Invocations |-> NothingRead]
    /\ inv_batch = [i \in Invocations |-> {}]

RaceOthers == <<apiVars, uploadVars, shiftVars, trained, variant, models,
                ml_event, ml_pc, ml_read, ml_batch, ml_i, ml_chain, ml_result,
                ml_raised, ml_before>>

\* the exchange publishes the next row, whatever the invocations are doing
RaceTick ==
    /\ now # <<MaxDay, SlotsPerDay>>
    /\ now' = IF now[2] < SlotsPerDay THEN <<now[1], now[2] + 1>>
              ELSE <<now[1] + 1, 1>>
    /\ UNCHANGED <<RaceOthers, storeVars, predicted, runs, raceVars>>

\* the handler of invocation i calls update_stock_table or update_predict
RaceInvoke(i) ==
    /\ inv_pc[i] \in {"idle", "done", "raised"}
    /\ runs < MaxRaceRuns
    /\ runs' = runs + 1
    /\ \E f \in RaceFunctions : inv_pc' = [inv_pc EXCEPT ![i] = f]
    /\ inv_read' = [inv_read EXCEPT ![i] = NothingRead]
    /\ inv_batch' = [inv_batch EXCEPT ![i] = {}]
    /\ UNCHANGED <<RaceOthers, now, stock_table, prediction_table, limit_table,
                   predicted>>

\* update_stock_table of invocation i, ml_lambda lines 160-181; app lines
\* 331-355
RaceStockRead(i) ==
    /\ inv_pc[i] = "update_stock_table"
    /\ inv_read' = [inv_read EXCEPT ![i]["stock"] = limit_table["stock"]]
    /\ \E answered \in BOOLEAN :
          LET last_update_date == ToDatetime(limit_table["stock"])
              download == IF answered
                          THEN Published(last_update_date.v[1], now) ELSE {}
              newer == Newer(download, last_update_date.v)
          IN IF ~last_update_date.ok
             THEN inv_pc' = [inv_pc EXCEPT ![i] = "raised"] /\ UNCHANGED inv_batch
             ELSE IF download = {}
             THEN /\ inv_pc' = [inv_pc EXCEPT
                                  ![i] = IF variant = "ml_lambda" THEN "done"
                                         ELSE "raised"]
                  /\ UNCHANGED inv_batch
             ELSE IF newer = {}
             THEN inv_pc' = [inv_pc EXCEPT ![i] = "done"] /\ UNCHANGED inv_batch
             ELSE /\ inv_batch' = [inv_batch EXCEPT ![i] = newer]
                  /\ inv_pc' = [inv_pc EXCEPT ![i] = "stock_write"]
    /\ UNCHANGED <<RaceOthers, now, stock_table, prediction_table, limit_table,
                   predicted, runs>>

\* ml_lambda lines 183-190; app lines 357-360
RaceStockWrite(i) ==
    /\ inv_pc[i] = "stock_write"
    /\ stock_table' = stock_table \cup inv_batch[i]
    /\ inv_pc' = [inv_pc EXCEPT ![i] = "stock_limit"]
    /\ UNCHANGED <<RaceOthers, now, prediction_table, limit_table, predicted,
                   runs, inv_read, inv_batch>>

\* ml_lambda lines 192-206; app lines 362-379
RaceStockLimit(i) ==
    /\ inv_pc[i] = "stock_limit"
    /\ limit_table' = [limit_table EXCEPT
                          !["stock"] = IsoDatetime(LastRow(inv_batch[i]))]
    /\ inv_pc' = [inv_pc EXCEPT ![i] = "done"]
    /\ UNCHANGED <<RaceOthers, now, stock_table, prediction_table, predicted,
                   runs, inv_read, inv_batch>>

\* update_predict of invocation i, ml_lambda lines 274-312; app lines 385-429
RacePredictRead(i) ==
    /\ inv_pc[i] = "update_predict"
    /\ LET max == limit_table["prediction"]
           stock_max == limit_table["stock"]
           parsed == ToDatetime(max)
           scan == TakesFullScan(variant, max)
           rows == IF scan THEN stock_table
                   ELSE Unpredicted(stock_table, parsed.v, stock_max)
           empty_day == /\ DateStrLe(parsed.v[1], stock_max)
                        /\ \A r \in stock_table : r[1] # parsed.v[1]
       IN /\ inv_read' = [inv_read EXCEPT
                             ![i]["prediction"] = max,
                             ![i]["stock"] = IF scan \/ ~parsed.ok THEN @
                                             ELSE stock_max]
          /\ IF ~scan /\ ~parsed.ok
             THEN inv_pc' = [inv_pc EXCEPT ![i] = "raised"] /\ UNCHANGED inv_batch
             ELSE IF ~scan /\ empty_day
             THEN inv_pc' = [inv_pc EXCEPT ![i] = "raised"] /\ UNCHANGED inv_batch
             ELSE IF rows = {}
             THEN inv_pc' = [inv_pc EXCEPT ![i] = "done"] /\ UNCHANGED inv_batch
             ELSE /\ inv_batch' = [inv_batch EXCEPT ![i] = rows]
                  /\ inv_pc' = [inv_pc EXCEPT ![i] = "predict_write"]
    /\ UNCHANGED <<RaceOthers, now, stock_table, prediction_table, limit_table,
                   predicted, runs>>

\* ml_lambda lines 314-360; app lines 431-470
RacePredictWrite(i) ==
    /\ inv_pc[i] = "predict_write"
    /\ prediction_table' = prediction_table \cup inv_batch[i]
    /\ predicted' = [r \in AllRows |->
                        IF r \in inv_batch[i] THEN predicted[r] + 1
                        ELSE predicted[r]]
    /\ inv_pc' = [inv_pc EXCEPT ![i] = "predict_limit"]
    /\ UNCHANGED <<RaceOthers, now, stock_table, limit_table, runs, inv_read,
                   inv_batch>>

\* ml_lambda lines 362-372; app lines 472-488
RacePredictLimit(i) ==
    /\ inv_pc[i] = "predict_limit"
    /\ limit_table' = [limit_table EXCEPT
                          !["prediction"] = IsoDatetime(LastRow(inv_batch[i]))]
    /\ inv_pc' = [inv_pc EXCEPT ![i] = "done"]
    /\ UNCHANGED <<RaceOthers, now, stock_table, prediction_table, predicted,
                   runs, inv_read, inv_batch>>

NextRace ==
    \/ RaceTick
    \/ \E i \in Invocations : RaceInvoke(i)
    \/ \E i \in Invocations : RaceStockRead(i)
    \/ \E i \in Invocations : RaceStockWrite(i)
    \/ \E i \in Invocations : RaceStockLimit(i)
    \/ \E i \in Invocations : RacePredictRead(i)
    \/ \E i \in Invocations : RacePredictWrite(i)
    \/ \E i \in Invocations : RacePredictLimit(i)

SpecRace == InitRace /\ [][NextRace]_vars

\* a watermark as a point of the datetime order; "0" is before every row
WatermarkRow(max) == <<max.day, max.slot>>

\* C27: no step of any invocation, overlapping or not, lowers the "stock"
\* max of the limit table.
C27_StockWatermarkNeverDecreases ==
    [][RowLe(WatermarkRow(limit_table["stock"]),
             WatermarkRow(limit_table["stock"]'))]_vars

\* C28: in every reachable state the prediction watermark is not later than
\* the stock watermark, and no row of the stock table is later than the
\* stock watermark.
C28_WatermarksBoundTables ==
    /\ RowLe(WatermarkRow(limit_table["prediction"]),
             WatermarkRow(limit_table["stock"]))
    /\ \A r \in stock_table : RowLe(r, WatermarkRow(limit_table["stock"]))

----------------------------------------------------------------------------
(* Every row is trained on once *)

\* the train watermark was written by update_model and covers the day of r,
\* so that no later run queries that day
BehindTrainWatermark(r) ==
    /\ limit_table["train"].kind = "date"
    /\ r[1] <= limit_table["train"].day

\* C29: every stock row later than the train watermark is in the training
\* batch of exactly one update_model run: no row is in the batches of two
\* runs, and every row of a day after the day of the initial watermark that
\* the train watermark has passed has been in a batch.
C29_TrainedExactlyOnce ==
    \A r \in stock_table :
        /\ trained[r] <= 1
        /\ (r[1] > 1 /\ BehindTrainWatermark(r)) => trained[r] = 1

====
